---- MODULE Spec2Model ----
(***************************************************************************)
(* Model of connect-nedb-session (src/index.js): a Connect/Express session *)
(* store that forwards get / set / destroy to an nedb datastore.           *)
(*                                                                         *)
(* The nedb datastore is an external library.  Its calls are modelled at   *)
(* the call sites of src/index.js by what the library does with the        *)
(* arguments given there: a single task queue that runs the operations in  *)
(* submission order, deep copies of the documents on the way in and on the *)
(* way out, an upsert that replaces the whole document, and a removal      *)
(* limited to one document.                                                *)
(***************************************************************************)
EXTENDS Integers, Sequences, FiniteSets, TLC

\* Number of get / set / destroy calls made on the store in one run.
MaxCalls == 3

\* Number of calls waiting in the datastore's queue at one time.
MaxPending == 2

-----------------------------------------------------------------------------
(* JavaScript values.  Every value is a record with a type field.          *)

JNull == [type |-> "null"]

JUndefined == [type |-> "undefined"]

JNum(n) == [type |-> "number", num |-> n]

JObj(props) == [type |-> "object", props |-> props]

JErr(code) == [type |-> "error", code |-> code]

\* !v of JavaScript
Falsy(v) ==
    \/ v.type \in {"null", "undefined"}
    \/ v.type = "number" /\ v.num = 0
    \/ v.type = "string" /\ v.str = ""

\* Session ids handed to get / set / destroy.
Sids == {"s1", "s2"}

\* Session payloads handed to set: the falsy payload 0 and the objects
\* {a:1}, {b:2}.
Payloads ==
    { JNum(0), JObj({<<"a", JNum(1)>>}), JObj({<<"b", JNum(2)>>}) }

\* Errors the datastore can hand to a query callback: EINVAL rejects the
\* query before it touches the documents, EIO is a failure to append the
\* new state to the datafile, after the in-memory documents were changed.
Errors == { JErr("EINVAL"), JErr("EIO") }

-----------------------------------------------------------------------------
(* The datastore (nedb), as used by the store.                             *)

\* model.deepCopy of nedb: documents are copied on the way in and out.
RECURSIVE deepCopy(_)
deepCopy(v) ==
    IF v.type \in {"boolean", "number", "string", "null"} THEN v
    ELSE IF v.type = "object"
         THEN JObj({ <<p[1], deepCopy(p[2])>> : p \in v.props })
         ELSE JUndefined

\* A stored document { _id, sid, data }.
Doc(id, sid, data) == [type |-> "doc", _id |-> id, sid |-> sid, data |-> data]

\* The documents matching the query { sid: sid }.
Matching(docs, sid) == { d \in docs : d.sid = sid }

\* A fresh _id for an inserted document.
FreshId(docs) ==
    CHOOSE n \in 1..(Cardinality(docs) + 1) : \A d \in docs : d._id # n

\* The possible results of db.findOne({ sid: sid }): null, or a copy of a
\* matching document.
findOne(docs, sid) ==
    IF Matching(docs, sid) = {} THEN { JNull }
    ELSE { Doc(d._id, d.sid, deepCopy(d.data)) : d \in Matching(docs, sid) }

\* update with upsert that never looks for a match: always inserts.
update_insert(docs, sid, data) ==
    { docs \cup { Doc(FreshId(docs), sid, deepCopy(data)) } }

\* The properties of the old payload not overwritten by the new one.
Merge(old, new) ==
    IF old.type = "object" /\ new.type = "object"
    THEN JObj(new.props \cup
              { p \in old.props : \A q \in new.props : q[1] # p[1] })
    ELSE new

\* update that treats the update document as a $set modifier: merges.
update_merge(docs, sid, data) ==
    IF Matching(docs, sid) = {}
    THEN { docs \cup { Doc(FreshId(docs), sid, deepCopy(data)) } }
    ELSE { (docs \ {d}) \cup { Doc(d._id, sid, Merge(d.data, deepCopy(data))) } :
             d \in Matching(docs, sid) }

\* update with the query {}: any document matches.
update_anydoc(docs, sid, data) ==
    IF docs = {}
    THEN { docs \cup { Doc(FreshId(docs), sid, deepCopy(data)) } }
    ELSE { (docs \ {d}) \cup { Doc(d._id, sid, deepCopy(data)) } : d \in docs }

\* update that inserts when there is no match and otherwise keeps the
\* document it finds: the first write wins.
update_first(docs, sid, data) ==
    IF Matching(docs, sid) = {}
    THEN { docs \cup { Doc(FreshId(docs), sid, deepCopy(data)) } }
    ELSE { docs }

\* The possible results of
\* db.update({ sid: sid }, { sid: sid, data: data }, { multi: false, upsert: true }):
\* the update document has no modifier, so it replaces one matching document
\* (keeping its _id); with no match the update document is inserted.
update(docs, sid, data) ==
    IF Matching(docs, sid) = {}
    THEN { docs \cup { Doc(FreshId(docs), sid, deepCopy(data)) } }
    ELSE { (docs \ {d}) \cup { Doc(d._id, sid, deepCopy(data)) } :
             d \in Matching(docs, sid) }

\* remove with the query {}: any document matches.
remove_anydoc(docs, sid) ==
    IF docs = {} THEN { docs } ELSE { docs \ {d} : d \in docs }

\* remove that leaves the documents alone.
remove_none(docs, sid) == { docs }

\* remove with the query {} and multi: true: every document goes.
remove_all(docs, sid) == { {} }

\* The possible results of db.remove({ sid: sid }, { multi: false }): one
\* matching document is removed, if there is one.
remove(docs, sid) ==
    IF Matching(docs, sid) = {} THEN { docs }
    ELSE { docs \ {d} : d \in Matching(docs, sid) }

\* The contents a datafile written by an earlier run of the store can have.
Datafiles ==
    { {}, { Doc(1, "s1", JObj({<<"a", JNum(1)>>})) } }

-----------------------------------------------------------------------------
(* The store.                                                              *)

VARIABLES
    db,          \* this.db: the documents the datastore holds in memory
    loadState,   \* "loading", "loaded" or "failed": db.loadDatabase
    compaction,  \* "none", "requested" or "done": persistence.compactDatafile
    ctorCb,      \* the invocations of the constructor's callback (argument lists)
    calls,       \* the get / set / destroy calls made, in submission order
    queue,       \* the tasks of the datastore's executor, in submission order
    dbHandle     \* this.db: which datastore object it is, and whether it is open

vars == <<db, loadState, compaction, ctorCb, calls, queue, dbHandle>>

\* The datastore object made by new Nedb(options.filename).
NewNedb(id) == [id |-> id, open |-> TRUE]

\* A call as made on the store, before the datastore has run its query:
\* handle is the datastore object the query is given to (this.db), queries
\* the number of queries issued for the call, the one the call makes itself
\* to begin with.
Call(op, sid, data) ==
    [op |-> op, sid |-> sid, data |-> data, state |-> "queued",
     dbErr |-> JUndefined, cb |-> <<>>, handle |-> dbHandle.id, queries |-> 1]

\* Tasks of the executor: the query of a call, or the compaction.
QueryTask(i) == [task |-> "query", call |-> i]

CompactTask == [task |-> "compact"]

\* The executor buffers the tasks until loadDatabase has succeeded.
Ready == loadState = "loaded"

\* The calls whose query waits in the executor.
Pending == { i \in 1..Len(calls) : calls[i].state = "queued" }

\* A further call can be made.
CanCall == Len(calls) < MaxCalls /\ Cardinality(Pending) < MaxPending

\* The executor runs the query of a call of kind op next.
Runs(op) ==
    /\ Ready
    /\ queue # <<>>
    /\ Head(queue).task = "query"
    /\ calls[Head(queue).call].op = op

\* The call whose query the executor runs.
Running == calls[Head(queue).call]

\* new NedbStore(options, cb)
Init ==
    /\ db = {}
    /\ loadState = "loading"
    /\ compaction = "none"
    /\ ctorCb = <<>>
    /\ calls = <<>>
    /\ queue = <<>>
    /\ dbHandle = NewNedb(1)

\* loadDatabase's function without the compactDatafile call.
loadDatabaseCallback_nocompact ==
    /\ loadState = "loading"
    /\ \/ \E f \in Datafiles : db' = f /\ loadState' = "loaded"
       \/ db' = db /\ loadState' = "failed"
    /\ ctorCb' = Append(ctorCb, <<>>)
    /\ UNCHANGED <<compaction, queue, calls, dbHandle>>

\* loadDatabase's function returning at once when the load failed.
loadDatabaseCallback_checkerr ==
    /\ loadState = "loading"
    /\ \/ /\ \E f \in Datafiles : db' = f /\ loadState' = "loaded"
          /\ compaction' = "requested"
          /\ queue' = Append(queue, CompactTask)
          /\ ctorCb' = Append(ctorCb, <<>>)
       \/ /\ db' = db /\ loadState' = "failed"
          /\ UNCHANGED <<compaction, queue, ctorCb>>
    /\ UNCHANGED <<calls, dbHandle>>

\* The function given to db.loadDatabase: it requests the compaction and
\* calls callback(), whatever the outcome of the load.
loadDatabaseCallback ==
    /\ loadState = "loading"
    /\ \/ \E f \in Datafiles : db' = f /\ loadState' = "loaded"
       \/ db' = db /\ loadState' = "failed"
    /\ compaction' = "requested"
    /\ queue' = Append(queue, CompactTask)
    /\ ctorCb' = Append(ctorCb, <<>>)
    /\ UNCHANGED <<calls, dbHandle>>

\* A compaction that also drops the documents held in memory.
compactDatafile_wipe ==
    /\ Ready
    /\ queue # <<>>
    /\ Head(queue).task = "compact"
    /\ compaction' = "done"
    /\ queue' = Tail(queue)
    /\ db' = {}
    /\ UNCHANGED <<loadState, ctorCb, calls, dbHandle>>

\* The executor runs the compaction task queued by compactDatafile: the
\* datafile is rewritten from the documents in memory.
compactDatafile ==
    /\ Ready
    /\ queue # <<>>
    /\ Head(queue).task = "compact"
    /\ compaction' = "done"
    /\ queue' = Tail(queue)
    /\ UNCHANGED <<db, loadState, ctorCb, calls, dbHandle>>

\* A call that opens a datastore object of its own before its query.
Submit_reopen(c) ==
    /\ CanCall
    /\ dbHandle' = NewNedb(dbHandle.id + 1)
    /\ calls' = Append(calls, [c EXCEPT !.handle = dbHandle.id + 1])
    /\ queue' = Append(queue, QueryTask(Len(calls) + 1))
    /\ UNCHANGED <<db, loadState, compaction, ctorCb>>

\* A call is made: its query is pushed to the executor.
Submit(c) ==
    /\ CanCall
    /\ calls' = Append(calls, c)
    /\ queue' = Append(queue, QueryTask(Len(calls) + 1))
    /\ UNCHANGED <<db, loadState, compaction, ctorCb, dbHandle>>

\* NedbStore.prototype.get: db.findOne({ sid: sid }, ...)
get == \E sid \in Sids : Submit(Call("get", sid, JUndefined))

\* NedbStore.prototype.set: db.update({ sid: sid }, { sid: sid, data: data }, ...)
set == \E sid \in Sids, data \in Payloads : Submit(Call("set", sid, data))

\* NedbStore.prototype.destroy: db.remove({ sid: sid }, ...)
destroy == \E sid \in Sids : Submit(Call("destroy", sid, JUndefined))

\* get's function testing the payload instead of the document.
getCallback_falsy(err, sess) ==
    IF ~Falsy(err) THEN << <<err>> >>
    ELSE IF Falsy(sess) \/ Falsy(sess.data) THEN << <<JNull, JNull>> >>
    ELSE << <<JNull, sess.data>> >>

\* get's function reporting a missing document as an error.
getCallback_notfound(err, sess) ==
    IF ~Falsy(err) THEN << <<err>> >>
    ELSE IF Falsy(sess) THEN << <<JErr("ENOENT")>> >>
    ELSE << <<JNull, sess.data>> >>

\* get's function without the return after callback(err).
getCallback_fallthrough(err, sess) ==
    IF ~Falsy(err) THEN << <<err>>, <<JNull, JNull>> >>
    ELSE IF Falsy(sess) THEN << <<JNull, JNull>> >>
    ELSE << <<JNull, sess.data>> >>

\* The function given to db.findOne by get: the invocations of callback.
getCallback(err, sess) ==
    IF ~Falsy(err) THEN << <<err>> >>
    ELSE IF Falsy(sess) THEN << <<JNull, JNull>> >>
    ELSE << <<JNull, sess.data>> >>

\* set's function wrapping the datastore's error in one of its own.
setCallback_wrap(err) ==
    IF Falsy(err) THEN << <<err>> >> ELSE << <<JErr("ESESSION")>> >>

\* The function given to db.update by set: the invocations of callback.
setCallback(err) == << <<err>> >>

\* The function given to db.remove by destroy: the invocations of callback.
destroyCallback(err) == << <<err>> >>

\* A function that issues the query of call i again when it failed.
callbackQueries_retry(i, err) ==
    IF Falsy(err) THEN <<>> ELSE << QueryTask(i) >>

\* The queries the functions given to findOne, update and remove issue for
\* call i when the datastore calls them with err: none, they only call
\* callback.
callbackQueries(i, err) == <<>>

\* The running query ends with the datastore's error err (null for none)
\* and the invocations cb of the call's callback.
Complete(err, cb) ==
    LET i == Head(queue).call IN
    /\ calls' = [calls EXCEPT ![i] =
                    [@ EXCEPT !.state = "done", !.dbErr = err, !.cb = cb,
                              !.queries = @ + Len(callbackQueries(i, err))]]
    /\ queue' = Tail(queue) \o callbackQueries(i, err)

\* A get that removes the document it returns.
findOneDone_consume ==
    /\ Runs("get")
    /\ \/ \E sess \in findOne(db, Running.sid) :
             /\ Complete(JNull, getCallback(JNull, sess))
             /\ db' = db \ Matching(db, Running.sid)
       \/ /\ Complete(JErr("EINVAL"), getCallback(JErr("EINVAL"), JUndefined))
          /\ db' = db
    /\ UNCHANGED <<loadState, compaction, ctorCb, dbHandle>>

\* The executor runs a findOne and calls the function get gave it.  A
\* findOne writes nothing to the datafile, so it fails with EINVAL only.
findOneDone ==
    /\ Runs("get")
    /\ \/ \E sess \in findOne(db, Running.sid) :
             Complete(JNull, getCallback(JNull, sess))
       \/ Complete(JErr("EINVAL"), getCallback(JErr("EINVAL"), JUndefined))
    /\ UNCHANGED <<db, loadState, compaction, ctorCb, dbHandle>>

\* The executor runs an update and calls the function set gave it.
updateDone ==
    /\ Runs("set")
    /\ \/ /\ db' \in update(db, Running.sid, Running.data)
          /\ \E e \in {JNull, JErr("EIO")} : Complete(e, setCallback(e))
       \/ /\ db' = db
          /\ Complete(JErr("EINVAL"), setCallback(JErr("EINVAL")))
    /\ UNCHANGED <<loadState, compaction, ctorCb, dbHandle>>

\* The executor runs a remove and calls the function destroy gave it.
removeDone ==
    /\ Runs("destroy")
    /\ \/ /\ db' \in remove(db, Running.sid)
          /\ \E e \in {JNull, JErr("EIO")} : Complete(e, destroyCallback(e))
       \/ /\ db' = db
          /\ Complete(JErr("EINVAL"), destroyCallback(JErr("EINVAL")))
    /\ UNCHANGED <<loadState, compaction, ctorCb, dbHandle>>

Next ==
    \/ loadDatabaseCallback
    \/ compactDatafile
    \/ get
    \/ set
    \/ destroy
    \/ findOneDone
    \/ updateDone
    \/ removeDone

Spec == Init /\ [][Next]_vars

-----------------------------------------------------------------------------
(* What a caller observes of a call.                                       *)

Done(i) == calls[i].state = "done"

\* The error argument of the (first) invocation of call i's callback.
CbErr(i) == calls[i].cb[1][1]

\* The query of call i ran and the datastore reported no error.
QueryOk(i) == Done(i) /\ calls[i].dbErr = JNull

\* The last set or destroy for sid made before call i, 0 if there is none.
\* The executor runs the queries in submission order, so when call i has
\* run, this is the last set or destroy for sid processed before it.
LastWrite(i, sid) ==
    LET W == { j \in 1..(i - 1) :
                 calls[j].op \in {"set", "destroy"} /\ calls[j].sid = sid }
    IN  IF W = {} THEN 0 ELSE CHOOSE j \in W : \A k \in W : k <= j

\* The step is the executor running the query of a call of kind op.
Ran(op) == Runs(op) /\ queue' = Tail(queue)

\* After such a step: the call whose query ran.
JustRan == calls'[Head(queue).call]

-----------------------------------------------------------------------------
\* C1: round trip.  When a get(id) has run (its findOne reported no error)
\* and the last set or destroy for id processed before it is a set(id, data)
\* that completed without error, the get calls back once, with a null error
\* and exactly data, falsy payloads included.
RoundTrip ==
    \A g \in 1..Len(calls) :
        LET w == LastWrite(g, calls[g].sid) IN
        (/\ calls[g].op = "get" /\ QueryOk(g)
         /\ w # 0 /\ calls[w].op = "set" /\ CbErr(w) = JNull)
        => calls[g].cb = << <<JNull, calls[w].data>> >>

\* A get returned the falsy payload 0 written by the set before it.
RoundTripWitness ==
    /\ Len(calls) >= 2
    /\ calls[1].op = "set" /\ calls[1].data = JNum(0) /\ Done(1) /\ CbErr(1) = JNull
    /\ calls[2].op = "get" /\ calls[2].sid = calls[1].sid /\ QueryOk(2)
    /\ calls[2].cb = << <<JNull, JNum(0)>> >>

\* C2: in every reachable state the datastore holds at most one document
\* per session id.
OneRecordPerSid == \A sid \in Sids : Cardinality(Matching(db, sid)) <= 1

\* Two sets for one id were in flight together (both made before the load
\* finished: the compaction queued at the end of the load has not run yet),
\* both have run, and the id has one document.
OneRecordPerSidWitness ==
    /\ Len(calls) >= 2
    /\ calls[1].op = "set" /\ calls[2].op = "set"
    /\ calls[1].sid = calls[2].sid
    /\ calls[1].data # calls[2].data
    /\ QueryOk(1) /\ QueryOk(2)
    /\ compaction = "requested"
    /\ Cardinality(Matching(db, calls[1].sid)) = 1

\* C3: set replaces, it does not merge.  When a get(id) has run after
\* set(id, d1) and then set(id, d2), both completed without error and with
\* no other set or destroy for id between them and the get, the get returns
\* exactly d2, and every property of the result is a property of d2.
SetReplaces ==
    \A g \in 1..Len(calls) :
        LET w2 == LastWrite(g, calls[g].sid)
            w1 == IF w2 = 0 THEN 0 ELSE LastWrite(w2, calls[g].sid)
        IN
        (/\ calls[g].op = "get" /\ QueryOk(g)
         /\ w2 # 0 /\ calls[w2].op = "set" /\ CbErr(w2) = JNull
         /\ w1 # 0 /\ calls[w1].op = "set" /\ CbErr(w1) = JNull)
        => /\ Len(calls[g].cb) = 1
           /\ Len(calls[g].cb[1]) = 2
           /\ calls[g].cb[1][2] = calls[w2].data
           /\ calls[g].cb[1][2].type = "object"
                => calls[g].cb[1][2].props \subseteq calls[w2].data.props

\* set(id, {a:1}), set(id, {b:2}), get(id) returned {b:2}.
SetReplacesWitness ==
    /\ Len(calls) >= 3
    /\ calls[1].op = "set" /\ calls[1].data = JObj({<<"a", JNum(1)>>})
    /\ calls[2].op = "set" /\ calls[2].data = JObj({<<"b", JNum(2)>>})
    /\ calls[3].op = "get"
    /\ calls[1].sid = calls[2].sid /\ calls[2].sid = calls[3].sid
    /\ QueryOk(1) /\ QueryOk(2) /\ QueryOk(3)
    /\ calls[3].cb = << <<JNull, JObj({<<"b", JNum(2)>>})>> >>

\* C4: when the findOne of a get(id) runs without error while the datastore
\* holds no document for id, the get calls back once with a null error and
\* a null result.
AbsenceIsNull ==
    [][ (Ran("get") /\ JustRan.dbErr = JNull /\ Matching(db, Running.sid) = {})
          => JustRan.cb = << <<JNull, JNull>> >> ]_vars

\* A get for an id without a document has called back with (null, null).
AbsenceIsNullWitness ==
    /\ Len(calls) >= 1
    /\ calls[1].op = "get" /\ calls[1].sid = "s2" /\ QueryOk(1)
    /\ calls[1].cb = << <<JNull, JNull>> >>

\* C5: destroy is idempotent.  Every destroy whose remove reports no error
\* calls back once with a null error, also when it is the second destroy
\* for the id in a row, and a destroy for an id without a document leaves
\* the documents unchanged.
DestroyIdempotent ==
    [][ (Ran("destroy") /\ JustRan.dbErr = JNull)
          => /\ JustRan.cb = << <<JNull>> >>
             /\ Matching(db, Running.sid) = {} => db' = db ]_vars

\* set(id), destroy(id), destroy(id): both destroys called back without
\* error and the second one found nothing to remove.
DestroyIdempotentWitness ==
    /\ Len(calls) >= 3
    /\ calls[1].op = "set" /\ calls[1].sid = "s2" /\ QueryOk(1)
    /\ calls[2].op = "destroy" /\ calls[2].sid = "s2" /\ QueryOk(2)
    /\ calls[3].op = "destroy" /\ calls[3].sid = "s2" /\ QueryOk(3)
    /\ calls[2].cb = << <<JNull>> >>
    /\ calls[3].cb = << <<JNull>> >>
    /\ Matching(db, "s2") = {}

\* C6: when a get(id) has run (its findOne reported no error) and the last
\* set or destroy for id processed before it is a destroy(id) that completed
\* without error, the get calls back with a null error and a null result.
DestroyedIsGone ==
    \A g \in 1..Len(calls) :
        LET w == LastWrite(g, calls[g].sid) IN
        (/\ calls[g].op = "get" /\ QueryOk(g)
         /\ w # 0 /\ calls[w].op = "destroy" /\ CbErr(w) = JNull)
        => calls[g].cb = << <<JNull, JNull>> >>

\* set(id, data), destroy(id), get(id): the get returned null.
DestroyedIsGoneWitness ==
    /\ Len(calls) >= 3
    /\ calls[1].op = "set" /\ calls[1].data # JNull /\ QueryOk(1)
    /\ calls[2].op = "destroy" /\ calls[2].sid = calls[1].sid /\ QueryOk(2)
    /\ calls[3].op = "get" /\ calls[3].sid = calls[1].sid /\ QueryOk(3)
    /\ calls[3].cb = << <<JNull, JNull>> >>

\* C7: isolation by id.  The update of a set(id1, X) leaves the documents of
\* every other id, and so the result of a get for it, unchanged.
IsolationBySid ==
    [][ Ran("set")
          => \A sid \in Sids \ {Running.sid} :
                /\ Matching(db', sid) = Matching(db, sid)
                /\ findOne(db', sid) = findOne(db, sid) ]_vars

\* A set for s2 has run while s1 had a document, and s1 still has it.
IsolationBySidWitness ==
    /\ Len(calls) >= 2
    /\ calls[1].op = "set" /\ calls[1].sid = "s1" /\ QueryOk(1)
    /\ calls[2].op = "set" /\ calls[2].sid = "s2" /\ QueryOk(2)
    /\ calls[1].data # calls[2].data
    /\ \E d \in Matching(db, "s1") : d.data = calls[1].data
    /\ \E d \in Matching(db, "s2") : d.data = calls[2].data

\* C8: a call whose query has not run has no invocation of its callback; a
\* call whose query has run has exactly one.  That invocation carries an
\* error and nothing else, or a null error: followed by the result for get,
\* alone for set and destroy.
ExactlyOneCallback ==
    \A i \in 1..Len(calls) :
        /\ ~Done(i) => calls[i].cb = <<>>
        /\ Done(i) =>
              /\ Len(calls[i].cb) = 1
              /\ \/ /\ CbErr(i).type = "error"
                    /\ Len(calls[i].cb[1]) = 1
                 \/ /\ CbErr(i) = JNull
                    /\ Len(calls[i].cb[1]) = IF calls[i].op = "get" THEN 2 ELSE 1
                    /\ calls[i].op = "get" => calls[i].cb[1][2].type # "undefined"

\* A failed get, a successful get, a set and a destroy have each called
\* back once.
ExactlyOneCallbackWitness ==
    /\ \E i \in 1..Len(calls) :
          calls[i].op = "get" /\ Done(i) /\ CbErr(i).type = "error"
    /\ \E i \in 1..Len(calls) :
          calls[i].op = "get" /\ Done(i) /\ calls[i].cb[1] = <<JNull, JNum(0)>>
    /\ \E i \in 1..Len(calls) :
          calls[i].op = "set" /\ Done(i) /\ Len(calls[i].cb) = 1

\* C9: when the query of a get, set or destroy fails with error e, the
\* call's callback is invoked with e as its only argument.
ErrorVerbatim ==
    \A i \in 1..Len(calls) :
        (Done(i) /\ calls[i].dbErr # JNull)
        => calls[i].cb = << <<calls[i].dbErr>> >>

\* A get, a set and a destroy have failed, with both errors among them.
ErrorVerbatimWitness ==
    /\ Len(calls) >= 3
    /\ { calls[i].op : i \in 1..3 } = {"get", "set", "destroy"}
    /\ \A i \in 1..3 : Done(i) /\ calls[i].dbErr \in Errors
    /\ { calls[i].dbErr : i \in 1..3 } = Errors
    /\ \A i \in 1..3 : CbErr(i) = calls[i].dbErr

\* C10 as stated: the constructor's callback is invoked with no arguments
\* and only after the load and the compaction of the datafile have finished.
CtorCallbackAfterCompaction ==
    \A i \in 1..Len(ctorCb) :
        /\ ctorCb[i] = <<>>
        /\ loadState # "loading"
        /\ compaction = "done"

\* C10 amended: the constructor's callback is invoked with no arguments and
\* only after the load has finished and the compaction has been requested;
\* the compaction itself may still be waiting in the executor.
CtorCallbackAfterLoad ==
    \A i \in 1..Len(ctorCb) :
        /\ ctorCb[i] = <<>>
        /\ loadState # "loading"
        /\ compaction \in {"requested", "done"}

\* The callback has been invoked while the compaction has not run yet.
CtorCallbackAfterLoadWitness ==
    /\ ctorCb = << <<>> >>
    /\ loadState = "loaded"
    /\ compaction = "requested"
    /\ CompactTask \in { queue[i] : i \in 1..Len(queue) }

\* C11 as stated: when the load of the database fails, no compaction is
\* requested and the constructor's callback is never invoked.
LoadFailureHangs ==
    loadState = "failed" => compaction = "none" /\ ctorCb = <<>>

\* C11 amended: when the load of the database fails, the function given to
\* loadDatabase runs all the same: the compaction is requested and the
\* constructor's callback is invoked once, with no arguments, so without
\* any sign of the failure.
LoadFailureUnsurfaced ==
    loadState = "failed" => compaction # "none" /\ ctorCb = << <<>> >>

\* The load has failed, the callback has been invoked, and a call made on
\* the store waits in the executor.
LoadFailureUnsurfacedWitness ==
    /\ loadState = "failed"
    /\ ctorCb = << <<>> >>
    /\ compaction = "requested"
    /\ Len(calls) >= 1 /\ ~Done(1)

\* C12: no expiry.  A document held for an id stays as it is, and a get for
\* the id would return the same data, across every step that is not the
\* update of a set or the remove of a destroy for that same id: gets, calls
\* for other ids, new calls being made and the startup compaction leave it.
NoExpiry ==
    [][ \A sid \in Sids :
          (/\ Matching(db, sid) # {}
           /\ ~(Ran("set") /\ Running.sid = sid)
           /\ ~(Ran("destroy") /\ Running.sid = sid))
          => /\ Matching(db', sid) = Matching(db, sid)
             /\ findOne(db', sid) = findOne(db, sid) ]_vars

\* A document written by set(s2, {b:2}) is still there after the startup
\* compaction, a get and a destroy for the other id.
NoExpiryWitness ==
    /\ Len(calls) >= 3
    /\ calls[1].op = "set" /\ calls[1].sid = "s2" /\ QueryOk(1)
    /\ calls[1].data = JObj({<<"b", JNum(2)>>})
    /\ calls[2].op = "get" /\ QueryOk(2)
    /\ calls[3].op = "destroy" /\ calls[3].sid = "s1" /\ QueryOk(3)
    /\ compaction = "done"
    /\ \E d \in db : d.sid = "s2" /\ d.data = calls[1].data

\* C13: concurrent writes to one id.  The queries run in submission order
\* (a call's query has run only when those of all earlier calls have), and
\* for two sets for one id that both completed without error, once the
\* later one is the last set or destroy for the id that has run, the id has
\* exactly one document and its data is the later set's data.
LastSetWins ==
    /\ \A i, j \in 1..Len(calls) : (i < j /\ Done(j)) => Done(i)
    /\ \A i, j \in 1..Len(calls) :
          (/\ i < j
           /\ calls[i].op = "set" /\ calls[j].op = "set"
           /\ calls[i].sid = calls[j].sid
           /\ QueryOk(i) /\ QueryOk(j)
           /\ \A k \in (j + 1)..Len(calls) :
                 (calls[k].sid = calls[j].sid /\ calls[k].op # "get") => ~Done(k))
          => /\ Cardinality(Matching(db, calls[j].sid)) = 1
             /\ \A d \in Matching(db, calls[j].sid) :
                   /\ d.data = calls[j].data
                   /\ d.data \in {calls[i].data, calls[j].data}

\* Two sets for s1 with different data were in flight together (both made
\* before the load finished: the compaction queued at the end of the load
\* has not run yet); both have run and s1 holds the data of the second.
LastSetWinsWitness ==
    /\ Len(calls) >= 2
    /\ calls[1].op = "set" /\ calls[1].sid = "s1" /\ QueryOk(1)
    /\ calls[2].op = "set" /\ calls[2].sid = "s1" /\ QueryOk(2)
    /\ calls[1].data = JObj({<<"a", JNum(1)>>})
    /\ calls[2].data = JObj({<<"b", JNum(2)>>})
    /\ compaction = "requested"
    /\ loadState = "loaded"
    /\ \A d \in Matching(db, "s1") : d.data = calls[2].data
    /\ Matching(db, "s1") # {}

\* C14: the remove of a destroy(id) takes away at most one document, only a
\* document whose sid is id, and adds none; the documents of every other id
\* are unchanged.
DestroyOnlyOwnSid ==
    [][ Ran("destroy")
          => /\ db' \subseteq db
             /\ Cardinality(db \ db') <= 1
             /\ \A d \in db \ db' : d.sid = Running.sid
             /\ \A sid \in Sids \ {Running.sid} :
                   Matching(db', sid) = Matching(db, sid) ]_vars

\* set(s1), set(s2), destroy(s1): the document of s1 is gone and the one of
\* s2 is still there.
DestroyOnlyOwnSidWitness ==
    /\ Len(calls) >= 3
    /\ calls[1].op = "set" /\ calls[1].sid = "s1" /\ QueryOk(1)
    /\ calls[2].op = "set" /\ calls[2].sid = "s2" /\ QueryOk(2)
    /\ calls[3].op = "destroy" /\ calls[3].sid = "s1" /\ QueryOk(3)
    /\ Matching(db, "s1") = {}
    /\ \E d \in Matching(db, "s2") : d.data = calls[2].data

\* C16: get is read-only.  The findOne of a get, whether it finds a
\* document, finds none or fails, leaves the documents unchanged.
GetReadOnly == [][ Ran("get") => db' = db ]_vars

\* A get that found a document, a get that found none and a get that failed
\* have run, and the document is still there.
GetReadOnlyWitness ==
    /\ Len(calls) >= 3
    /\ \A i \in 1..3 : calls[i].op = "get" /\ Done(i)
    /\ \E i \in 1..3 : calls[i].cb = << <<JNull, JObj({<<"a", JNum(1)>>})>> >>
    /\ \E i \in 1..3 : calls[i].cb = << <<JNull, JNull>> >>
    /\ \E i \in 1..3 : calls[i].dbErr = JErr("EINVAL")
    /\ Matching(db, "s1") # {}

\* C15: every call has issued exactly one query, whether the query has
\* succeeded, failed or not run yet: the executor holds one query task for a
\* call whose query has not run and none for a call whose query has run, so
\* no query is retried and no other query is issued in its place.
OneQueryPerCall ==
    \A i \in 1..Len(calls) :
        /\ calls[i].queries = 1
        /\ Cardinality({ k \in 1..Len(queue) : queue[k] = QueryTask(i) })
             = IF Done(i) THEN 0 ELSE 1

\* A get, a set and a destroy have all failed and the executor has nothing
\* left to run for them.
OneQueryPerCallWitness ==
    /\ Len(calls) >= 3
    /\ { calls[i].op : i \in 1..3 } = {"get", "set", "destroy"}
    /\ \A i \in 1..3 : Done(i) /\ calls[i].dbErr \in Errors /\ calls[i].queries = 1
    /\ \A k \in 1..Len(queue) : queue[k].task # "query"

\* C17: the store holds the datastore object made at construction: it is
\* never replaced and never closed, and every call gives its query to it.
OneHandle ==
    /\ dbHandle = NewNedb(1)
    /\ \A i \in 1..Len(calls) : calls[i].handle = dbHandle.id

\* A get, a set and a destroy have run on the datastore object made at
\* construction, which is still open.
OneHandleWitness ==
    /\ Len(calls) >= 3
    /\ { calls[i].op : i \in 1..3 } = {"get", "set", "destroy"}
    /\ \A i \in 1..3 : Done(i) /\ calls[i].handle = 1
    /\ dbHandle.id = 1 /\ dbHandle.open

-----------------------------------------------------------------------------
TypeOK ==
    /\ loadState \in {"loading", "loaded", "failed"}
    /\ compaction \in {"none", "requested", "done"}
    /\ Len(calls) <= MaxCalls
    /\ \A d \in db : d.sid \in Sids
    /\ dbHandle.open \in BOOLEAN
====
